---- MODULE Spec2Model ----
(***************************************************************************)
(* Model of synapse.replication.tcp.handler.ReplicationCommandHandler:     *)
(* RDATA batching, POSITION catch-up under the per-stream linearizer, and  *)
(* the list of live connections used to broadcast outbound commands.       *)
(***************************************************************************)
EXTENDS Integers, Sequences, FiniteSets, TLC

\* ---------------------------------------------------------------- bounds
MaxTok == 2        \* highest token the primary reaches
MaxRdata == 2      \* RDATA commands received
MaxPos == 2        \* POSITION commands received (one task each)
MaxConnLen == 2    \* length of the connections list
MaxSends == 2      \* outbound commands sent

\* ------------------------------------------------------------- constants
None == -1                          \* Python None, as a token / position
Streams == {"events", "typing"}     \* names registered in STREAMS_MAP
Unknown == "bogus"                  \* a name that is not in STREAMS_MAP
StreamNames == Streams \cup {Unknown}
Conns == {"c1", "c2"}               \* connection objects
TaskIds == 1..MaxPos
NoTask == 0

VARIABLES
    streams_connecting,   \* self.streams_connecting : set of stream names
    pending_batches,      \* self.pending_batches : stream name -> list of rows
    connections,          \* self.connections : list of connections
    linearizer,           \* self._position_linearizer : per key, holder and queue
    tasks,                \* the on_POSITION coroutines and where each is suspended
    position,             \* consumer: get_streams_to_replicate()
    calls,                \* consumer: the on_rdata / on_position calls received
    head,                 \* primary: current token of each stream
    row_has_token,        \* do the parsed rows (Stream.ROW_TYPE) have a .token attribute
    arrived,              \* per stream: rows parsed by on_RDATA, in arrival order
    received,             \* per connection: the commands passed to its send_command
    dropped,              \* ids of the commands send_command dropped
    nsent,                \* number of send_command calls so far
    ret                   \* the handler step just taken and how it ended

replVars == <<streams_connecting, pending_batches, linearizer, tasks, position,
              calls, head, row_has_token, arrived>>
connVars == <<connections, received, dropped, nsent>>
vars == <<streams_connecting, pending_batches, connections, linearizer, tasks,
          position, calls, head, row_has_token, arrived, received, dropped,
          nsent, ret>>

\* ---------------------------------------------------------------- helpers
Last(s) == s[Len(s)]

Range(s) == {s[i] : i \in 1..Len(s)}

\* dict.pop(key, []) / dict.setdefault(key, []) on pending_batches
DictGet(d, k) == IF k \in DOMAIN d THEN d[k] ELSE <<>>

DictPop(d, k) == [x \in (DOMAIN d) \ {k} |-> d[x]]

DictPut(d, k, v) == [x \in (DOMAIN d) \cup {k} |-> IF x = k THEN v ELSE d[x]]

\* what the last step was: the handler, the case of its input, how it ended
Ret(op, case, res) == [op |-> op, case |-> case, res |-> res]

IdleTask ==
    [stream |-> Unknown, target |-> None, pc |-> "idle", start |-> None,
     cur |-> None, limited |-> TRUE, nfetch |-> 0, pages |-> <<>>]

\* ------------------------------------------------------------------- Init
Init ==
    /\ streams_connecting = {}
    /\ pending_batches = <<>>
    /\ connections = <<>>
    /\ linearizer = [s \in Streams |-> [holder |-> NoTask, queue |-> <<>>]]
    /\ tasks = [t \in TaskIds |-> IdleTask]
    /\ position \in {p \in [Streams -> {None, 0}] : p["typing"] = 0}
    /\ calls = <<>>
    /\ head = [s \in Streams |-> 0]
    /\ row_has_token \in BOOLEAN
    /\ arrived = [s \in Streams |-> <<>>]
    /\ received = [c \in Conns |-> <<>>]
    /\ dropped = {}
    /\ nsent = 0
    /\ ret = Ret("init", "-", "returned")

\* ------------------------------------------------- external collaborators
\* The consumer (replication data handler) records each call it receives;
\* a batch or a position with a token moves its last-known token for a
\* stream it replicates.
ConsumerCall(kind, stream, token, rows, task, src) ==
    [kind |-> kind, stream |-> stream, token |-> token, rows |-> rows,
     task |-> task, src |-> src]

ConsumerPosition(pos, stream, token) ==
    IF pos[stream] = None \/ token = None THEN pos
    ELSE [pos EXCEPT ![stream] = token]

\* Stream.get_updates_since(from_token, to_token): the rows with tokens in
\* (from, new], the token reached, and whether more remain.  Nothing is
\* returned for an empty range; a page that stops short of to_token is
\* limited, a page that reaches it may still be reported limited.
RegistryRow(tok) ==
    [src |-> "registry", n |-> tok, ctok |-> tok, dfr |-> FALSE, epoch |-> 0]

PageRows(from, new) == [i \in 1..(new - from) |-> RegistryRow(from + i)]

GetUpdatesSince(from, to) ==
    IF from >= to
    THEN {[updates |-> <<>>, new |-> to, limited |-> FALSE]}
    ELSE {[updates |-> PageRows(from, new), new |-> new, limited |-> lim] :
             <<new, lim>> \in {x \in ((from + 1)..to) \X BOOLEAN :
                                   x[1] < to => x[2]}}

\* (mutation) the slot is handed to every caller at once
LinQueueNoWait(lin, key, t) == [lin EXCEPT ![key].holder = t]

\* Linearizer.queue(key): the slot is taken at once when free, else the
\* caller waits in FIFO order; leaving the with-block hands the slot to the
\* first waiter.
LinQueue(lin, key, t) ==
    IF lin[key].holder = NoTask
    THEN [lin EXCEPT ![key].holder = t]
    ELSE [lin EXCEPT ![key].queue = Append(@, t)]

LinRelease(lin, key) ==
    IF lin[key].queue = <<>>
    THEN [lin EXCEPT ![key].holder = NoTask]
    ELSE [lin EXCEPT ![key].holder = Head(lin[key].queue),
                     ![key].queue = Tail(@)]

\* --------------------------------------------------------------- on_RDATA
\* (mutation) a row that does not match the schema is accepted
ParseRaisesUnknownOnly(stream, row) == stream \notin Streams

\* STREAMS_MAP[stream_name].parse_row(cmd.row): raises for a name that is
\* not in the map (KeyError) and for a row that does not match the schema.
ParseRaises(stream, row) == stream \notin Streams \/ row = "bad"

\* The case of an RDATA command: its stream is not registered, its row does
\* not parse, or neither.
RdataCase(stream, row) ==
    IF stream \notin Streams THEN "unknown_stream"
    ELSE IF row = "bad" THEN "bad_row" ELSE "ok"

\* (mutation) the failure is logged and swallowed
ParseFailureSwallowed(stream, row) ==
    Ret("on_RDATA", RdataCase(stream, row), "returned")

\* lines 92-94: the failure is logged and raised again
ParseFailure(stream, row) == Ret("on_RDATA", RdataCase(stream, row), "raised")

\* line 96: batch when the command has no token or the stream is catching up
ShouldBuffer(token, stream, connecting) ==
    token = None \/ stream \in connecting

\* line 99: self.pending_batches.setdefault(stream_name, []).append(row)
BufferRow(pending, stream, row) ==
    DictPut(pending, stream, Append(DictGet(pending, stream), row))

\* lines 102-103: rows = self.pending_batches.pop(stream_name, []); rows.append(row)
CompleteBatch(pending, stream, row) == Append(DictGet(pending, stream), row)

NumArrived == Len(arrived["events"]) + Len(arrived["typing"])

\* The on_POSITION calls made so far for a stream.
Started(stream) ==
    Cardinality({t \in TaskIds : tasks[t].pc # "idle" /\ tasks[t].stream = stream})

\* A parsed row, with how it arrived: its index among the stream's rows, the
\* token of its command, whether the stream was in streams_connecting, and
\* how many on_POSITION calls for the stream had started.
ParsedRow(stream, token) ==
    [src |-> "rdata", n |-> Len(arrived[stream]) + 1, ctok |-> token,
     dfr |-> stream \in streams_connecting, epoch |-> Started(stream)]

on_RDATA(stream, token, raw) ==
    IF ParseRaises(stream, raw)
    THEN /\ ret' = ParseFailure(stream, raw)
         /\ UNCHANGED replVars
    ELSE LET row == ParsedRow(stream, token)
         IN /\ NumArrived < MaxRdata
            /\ arrived' = [arrived EXCEPT ![stream] = Append(@, row)]
            /\ head' = IF token # None THEN [head EXCEPT ![stream] = token]
                       ELSE head
            /\ ret' = Ret("on_RDATA", RdataCase(stream, raw), "returned")
            /\ IF ShouldBuffer(token, stream, streams_connecting)
               THEN /\ pending_batches' = BufferRow(pending_batches, stream, row)
                    /\ UNCHANGED <<calls, position>>
               ELSE LET rows == CompleteBatch(pending_batches, stream, row)
                    IN /\ pending_batches' = DictPop(pending_batches, stream)
                       /\ calls' = Append(calls,
                              ConsumerCall("on_rdata", stream, token, rows,
                                           NoTask, "live"))
                       /\ position' = ConsumerPosition(position, stream, token)
            /\ UNCHANGED <<streams_connecting, linearizer, tasks, row_has_token>>

\* The primary sends a row either without a token (more rows of the batch
\* follow) or with the next token of the stream.
RecvRDATA(names, raws) ==
    \E stream \in names, raw \in raws, withToken \in BOOLEAN :
        LET token == IF withToken /\ stream \in Streams
                     THEN head[stream] + 1 ELSE None
        IN /\ token <= MaxTok
           /\ on_RDATA(stream, token, raw)
           /\ UNCHANGED connVars

\* The primary commits a row that never reaches this worker as RDATA (the
\* link was down): only a later POSITION tells the worker about it.
PrimaryAdvance(names) ==
    \E stream \in names \cap Streams :
        /\ head[stream] < MaxTok
        /\ head' = [head EXCEPT ![stream] = @ + 1]
        /\ ret' = Ret("primary", "-", "returned")
        /\ UNCHANGED <<streams_connecting, pending_batches, linearizer, tasks,
                       position, calls, row_has_token, arrived>>
        /\ UNCHANGED connVars

\* ------------------------------------------------------------ on_POSITION
\* Each on_POSITION call is a coroutine; its pc names the await it is
\* suspended at:
\*   queued      line 130, waiting for the linearizer slot
\*   fetching    line 145, awaiting stream.get_updates_since
\*   forwarding  line 149, awaiting self.on_rdata for a page
\*   notifying   line 156, awaiting replication_data_handler.on_position
\*   done / aborted / raised   the coroutine has returned or raised
\* nfetch counts its get_updates_since calls, pages records what they returned.
InSection == {"fetching", "forwarding", "notifying"}

FreeTasks == {t \in TaskIds : tasks[t].pc = "idle"}

NextTask == CHOOSE t \in FreeTasks : \A u \in FreeTasks : t <= u

\* line 126: self.streams_connecting.add(cmd.stream_name)
MarkConnecting(connecting, stream) == connecting \cup {stream}

\* (mutation) the set is cleared
UnmarkConnectingAll(connecting, stream) == {}

\* line 158: self.streams_connecting.discard(cmd.stream_name)
UnmarkConnecting(connecting, stream) == connecting \ {stream}

\* lines 119-130: look the stream up, mark it as connecting, queue on the
\* linearizer.
PosStart(stream, token) ==
    IF stream \notin Streams
    THEN /\ ret' = Ret("on_POSITION", "unknown_stream", "returned")
         /\ UNCHANGED replVars
    ELSE /\ FreeTasks # {}
         /\ LET t == NextTask
            IN /\ streams_connecting' = MarkConnecting(streams_connecting, stream)
               /\ linearizer' = LinQueue(linearizer, stream, t)
               /\ tasks' = [tasks EXCEPT ![t] =
                      [IdleTask EXCEPT !.stream = stream, !.target = token,
                                       !.pc = "queued"]]
               /\ ret' = Ret("on_POSITION", "ok", "suspended")
         /\ UNCHANGED <<pending_batches, position, calls, head, row_has_token,
                        arrived>>

\* The primary sends its current token for the stream.
RecvPOSITION(names) ==
    \E stream \in names :
        /\ PosStart(stream, IF stream \in Streams THEN head[stream] ELSE 0)
        /\ UNCHANGED connVars

\* lines 130-146: the slot is granted; read the consumer's position; return
\* inside the with-block when there is none, else start the first fetch.
PosAcquire(t) ==
    LET stream == tasks[t].stream
        current_token == position[stream]
    IN /\ tasks[t].pc = "queued"
       /\ linearizer[stream].holder = t
       /\ IF current_token = None
          THEN /\ linearizer' = LinRelease(linearizer, stream)
               /\ tasks' = [tasks EXCEPT ![t].pc = "aborted"]
               /\ ret' = Ret("on_POSITION", "ok", "returned")
          ELSE /\ tasks' = [tasks EXCEPT ![t].pc = "fetching",
                                         ![t].start = current_token,
                                         ![t].cur = current_token,
                                         ![t].nfetch = 1,
                                         ![t].limited = TRUE]
               /\ ret' = Ret("on_POSITION", "ok", "suspended")
               /\ UNCHANGED linearizer
       /\ UNCHANGED <<streams_connecting, pending_batches, position, calls,
                      head, row_has_token, arrived>>
       /\ UNCHANGED connVars

\* line 144: `while limited`; line 156 after the loop.  The consumer call the
\* task makes next and the await it then waits at.
LoopAgain(limited) == limited

\* (mutation) the loop is left without the on_position callback
AfterPageSilent(t, tk, limited, cs, pos) ==
    IF LoopAgain(limited)
    THEN [pc |-> "fetching", nfetch |-> tk.nfetch + 1, calls |-> cs,
          position |-> pos]
    ELSE [pc |-> "notifying", nfetch |-> tk.nfetch, calls |-> cs,
          position |-> pos]

\* (mutation) the loop also ends once the returned token has reached the target
AfterPageStopsAtTarget(t, tk, limited, cs, pos) ==
    IF LoopAgain(limited) /\ tk.cur < tk.target
    THEN [pc |-> "fetching", nfetch |-> tk.nfetch + 1, calls |-> cs,
          position |-> pos]
    ELSE [pc |-> "notifying", nfetch |-> tk.nfetch,
          calls |-> Append(cs, ConsumerCall("on_position", tk.stream, tk.target,
                                            <<>>, t, "position")),
          position |-> ConsumerPosition(pos, tk.stream, tk.target)]

AfterPage(t, tk, limited, cs, pos) ==
    IF LoopAgain(limited)
    THEN [pc |-> "fetching", nfetch |-> tk.nfetch + 1, calls |-> cs,
          position |-> pos]
    ELSE [pc |-> "notifying", nfetch |-> tk.nfetch,
          calls |-> Append(cs, ConsumerCall("on_position", tk.stream, tk.target,
                                            <<>>, t, "position")),
          position |-> ConsumerPosition(pos, tk.stream, tk.target)]

\* (mutation) every page is forwarded, rows or not
ForwardPageAlways(updates) == TRUE

\* line 148: `if updates`
ForwardPage(updates) == updates # <<>>

\* (mutation) every fetch starts again from the position read at the start
FetchRangeFromStart(tk) == [from |-> tk.start, to |-> tk.target]

\* lines 145-147: stream.get_updates_since(current_token, cmd.token), where
\* current_token is the position read at line 132 or the token the last
\* fetch returned.
FetchRange(tk) == [from |-> tk.cur, to |-> tk.target]

\* lines 145-153: a fetch returns a page; a page with rows is forwarded with
\* the page's token, an empty one goes straight to the loop test.
PosFetchReturn(t) ==
    LET tk == tasks[t]
        rng == FetchRange(tk)
    IN /\ tk.pc = "fetching"
       /\ \E page \in GetUpdatesSince(rng.from, rng.to) :
            LET rec == [from |-> rng.from, to |-> rng.to, new |-> page.new,
                        updates |-> page.updates, limited |-> page.limited]
                tk2 == [tk EXCEPT !.cur = page.new, !.limited = page.limited,
                                  !.pages = Append(@, rec)]
            IN IF ForwardPage(page.updates)
               THEN /\ calls' = Append(calls,
                          ConsumerCall("on_rdata", tk.stream, page.new,
                                       page.updates, t, "page"))
                    /\ position' = ConsumerPosition(position, tk.stream, page.new)
                    /\ tasks' = [tasks EXCEPT ![t] = [tk2 EXCEPT !.pc = "forwarding"]]
               ELSE LET nxt == AfterPage(t, tk2, page.limited, calls, position)
                    IN /\ calls' = nxt.calls
                       /\ position' = nxt.position
                       /\ tasks' = [tasks EXCEPT ![t] =
                              [tk2 EXCEPT !.pc = nxt.pc, !.nfetch = nxt.nfetch]]
       /\ ret' = Ret("on_POSITION", "ok", "suspended")
       /\ UNCHANGED <<streams_connecting, pending_batches, linearizer, head,
                      row_has_token, arrived>>
       /\ UNCHANGED connVars

\* lines 149-156: the consumer has taken the page; loop or notify.
PosRdataReturn(t) ==
    LET tk == tasks[t]
        nxt == AfterPage(t, tk, tk.limited, calls, position)
    IN /\ tk.pc = "forwarding"
       /\ calls' = nxt.calls
       /\ position' = nxt.position
       /\ tasks' = [tasks EXCEPT ![t].pc = nxt.pc, ![t].nfetch = nxt.nfetch]
       /\ ret' = Ret("on_POSITION", "ok", "suspended")
       /\ UNCHANGED <<streams_connecting, pending_batches, linearizer, head,
                      row_has_token, arrived>>
       /\ UNCHANGED connVars

\* line 163: rows[-1].token is an attribute of the parsed row: the token the
\* row was sent with when the row type has one, an AttributeError otherwise.
DrainToken(rows) == Last(rows).ctok

\* lines 156-163: on_position has returned; leave the with-block, unmark the
\* stream and forward what was buffered meanwhile.
PosPositionReturn(t) ==
    LET tk == tasks[t]
        stream == tk.stream
        rows == DictGet(pending_batches, stream)
    IN /\ tk.pc = "notifying"
       /\ linearizer' = LinRelease(linearizer, stream)
       /\ streams_connecting' = UnmarkConnecting(streams_connecting, stream)
       /\ pending_batches' = DictPop(pending_batches, stream)
       /\ IF rows = <<>>
          THEN /\ tasks' = [tasks EXCEPT ![t].pc = "done"]
               /\ ret' = Ret("on_POSITION", "ok", "returned")
               /\ UNCHANGED <<calls, position>>
          ELSE IF row_has_token
          THEN /\ calls' = Append(calls,
                     ConsumerCall("on_rdata", stream, DrainToken(rows), rows, t,
                                  "drain"))
               /\ position' = ConsumerPosition(position, stream, DrainToken(rows))
               /\ tasks' = [tasks EXCEPT ![t].pc = "done"]
               /\ ret' = Ret("on_POSITION", "ok", "returned")
          ELSE /\ tasks' = [tasks EXCEPT ![t].pc = "raised"]
               /\ ret' = Ret("on_POSITION", "ok", "raised")
               /\ UNCHANGED <<calls, position>>
       /\ UNCHANGED <<head, row_has_token, arrived>>
       /\ UNCHANGED connVars

\* (mutation) the error leaves on_POSITION without releasing the slot
PosRaiseKeepsSlot(t) ==
    LET tk == tasks[t]
    IN /\ tk.pc \in InSection
       /\ tasks' = [tasks EXCEPT ![t].pc = "raised"]
       /\ ret' = Ret("on_POSITION", "ok", "raised")
       /\ UNCHANGED <<streams_connecting, pending_batches, linearizer,
                      position, calls, head, row_has_token, arrived>>
       /\ UNCHANGED connVars

\* An awaited call inside the with-block raises (the fetch, the parse of a
\* page's rows, a consumer call): the with-block releases the slot and the
\* error leaves on_POSITION before line 158.
PosRaise(t) ==
    LET tk == tasks[t]
    IN /\ tk.pc \in InSection
       /\ linearizer' = LinRelease(linearizer, tk.stream)
       /\ tasks' = [tasks EXCEPT ![t].pc = "raised"]
       /\ ret' = Ret("on_POSITION", "ok", "raised")
       /\ UNCHANGED <<streams_connecting, pending_batches, position, calls,
                      head, row_has_token, arrived>>
       /\ UNCHANGED connVars

PosStep ==
    \E t \in TaskIds :
        \/ PosAcquire(t)
        \/ PosFetchReturn(t)
        \/ PosRdataReturn(t)
        \/ PosPositionReturn(t)
        \/ PosRaise(t)

\* One replicated stream: well-formed RDATA and POSITION commands arrive
\* while earlier on_POSITION calls are suspended.
OneStream == {"events"}

NextRepl ==
    \/ RecvRDATA(OneStream, {"ok"})
    \/ RecvPOSITION(OneStream)
    \/ PrimaryAdvance(OneStream)
    \/ PosStep

SpecRepl == Init /\ [][NextRepl]_vars

\* The same under the reactor's scheduling: an awaited registry fetch or
\* consumer call that does not fail returns, and the coroutine resumes.
FairRepl ==
    /\ SpecRepl
    /\ \A t \in TaskIds : WF_vars(PosFetchReturn(t) \/ PosRdataReturn(t))

\* The same, where also a coroutine that has been granted the slot resumes
\* and an awaited on_position call that does not fail returns.
FairSlots ==
    /\ SpecRepl
    /\ \A t \in TaskIds :
           WF_vars(PosAcquire(t) \/ PosFetchReturn(t) \/ PosRdataReturn(t)
                      \/ PosPositionReturn(t))

\* Commands that name an unregistered stream and rows that do not parse
\* arrive among well-formed ones, while on_POSITION calls run to completion.
NextErr ==
    \/ RecvRDATA(OneStream \cup {Unknown}, {"ok", "bad"})
    \/ RecvPOSITION(OneStream \cup {Unknown})
    \/ \E t \in TaskIds :
           \/ PosAcquire(t)
           \/ PosFetchReturn(t)
           \/ PosRdataReturn(t)
           \/ PosPositionReturn(t)

SpecErr == Init /\ [][NextErr]_vars

\* Two replicated streams: "events" has fallen behind and catches up while
\* RDATA and POSITION commands for "typing" arrive.
NextCross ==
    \/ RecvRDATA({"typing"}, {"ok"})
    \/ RecvPOSITION(Streams)
    \/ PrimaryAdvance({"events"})
    \/ \E t \in TaskIds :
           \/ PosAcquire(t)
           \/ PosFetchReturn(t)
           \/ PosRdataReturn(t)
           \/ PosPositionReturn(t)

InitCross ==
    /\ Init
    /\ row_has_token
    /\ position = [s \in Streams |-> 0]

SpecCross == InitCross /\ [][NextCross]_vars

\* ------------------------------------------------------------ connections
\* (mutation) a dropped command was queued and is sent to the next connection
new_connection_flush(c) ==
    /\ Len(connections) < MaxConnLen
    /\ connections' = Append(connections, c)
    /\ received' = IF dropped = {} THEN received
                   ELSE [received EXCEPT ![c] =
                            Append(@, CHOOSE d \in dropped : TRUE)]
    /\ ret' = Ret("new_connection", c, "returned")
    /\ UNCHANGED <<dropped, nsent>>
    /\ UNCHANGED replVars

\* line 179: self.connections.append(connection).  No factory is set before
\* start_replication, so there is no delay to reset.
new_connection(c) ==
    /\ Len(connections) < MaxConnLen
    /\ connections' = Append(connections, c)
    /\ ret' = Ret("new_connection", c, "returned")
    /\ UNCHANGED <<received, dropped, nsent>>
    /\ UNCHANGED replVars

\* list.remove(x): drops the first occurrence of x
RECURSIVE ListRemove(_, _)
ListRemove(l, x) ==
    IF l = <<>> THEN <<>>
    ELSE IF Head(l) = x THEN Tail(l)
    ELSE <<Head(l)>> \o ListRemove(Tail(l), x)

\* lines 187-190: the ValueError of removing an absent connection is swallowed
lost_connection(c) ==
    /\ connections' = ListRemove(connections, c)
    /\ ret' = Ret("lost_connection", c, "returned")
    /\ UNCHANGED <<received, dropped, nsent>>
    /\ UNCHANGED replVars

\* lines 204-205: connection.send_command(cmd) for each entry of the list
RECURSIVE Broadcast(_, _, _)
Broadcast(conns, recv, id) ==
    IF conns = <<>> THEN recv
    ELSE Broadcast(Tail(conns),
                   [recv EXCEPT ![Head(conns)] = Append(@, id)], id)

\* lines 203-207
send_command(name) ==
    /\ nsent < MaxSends
    /\ nsent' = nsent + 1
    /\ IF connections # <<>>
       THEN /\ received' = Broadcast(connections, received, nsent + 1)
            /\ UNCHANGED dropped
       ELSE /\ dropped' = dropped \cup {nsent + 1}
            /\ UNCHANGED received
    /\ ret' = Ret("send_command", name, "returned")
    /\ UNCHANGED connections
    /\ UNCHANGED replVars

\* lines 209-251: each wrapper builds its command and calls send_command
send_federation_ack == send_command("FEDERATION_ACK")

send_user_sync == send_command("USER_SYNC")

send_remove_pusher == send_command("REMOVE_PUSHER")

send_invalidate_cache == send_command("INVALIDATE_CACHE")

send_user_ip == send_command("USER_IP")

send_remote_server_up == send_command("REMOTE_SERVER_UP")

NextConn ==
    \/ \E c \in Conns : new_connection(c)
    \/ \E c \in Conns : lost_connection(c)
    \/ \E name \in {"SYNC", "REPLICATE"} : send_command(name)
    \/ send_federation_ack
    \/ send_user_sync
    \/ send_remove_pusher
    \/ send_invalidate_cache
    \/ send_user_ip
    \/ send_remote_server_up
    \/ RecvRDATA(OneStream, {"ok"})

\* Connections come and go and commands are sent while RDATA is batched.
InitConn ==
    /\ Init
    /\ row_has_token
    /\ position = [s \in Streams |-> 0]

SpecConn == InitConn /\ [][NextConn]_vars

\* The whole handler: inbound commands, catch-up and connections together.
Next == NextRepl \/ NextErr \/ NextCross \/ NextConn

Spec == Init /\ [][Next]_vars

\* ================================================================= claims
RdataCalls(stream) ==
    SelectSeq(calls, LAMBDA c : c.kind = "on_rdata" /\ c.stream = stream)

\* C1 (ordering invariant): for every stream, if batches with tokens t1 < t2
\* are both passed to the consumer's on_rdata, the call for t1 is made before
\* the call for t2: no on_rdata call carries a token smaller than the token
\* of an earlier on_rdata call for the same stream.
C1_Ordering ==
    \A stream \in Streams :
        LET cs == RdataCalls(stream)
        IN \A i, j \in 1..Len(cs) :
               (i < j /\ cs[i].token # None /\ cs[j].token # None)
                   => cs[i].token <= cs[j].token

\* The first row of the batch that row k of a stream belongs to: the row
\* after the last token-bearing row before k.
BatchStart(a, k) ==
    LET closed == {i \in 1..(k - 1) : a[i].ctok # None}
    IN IF closed = {} THEN 1
       ELSE 1 + CHOOSE i \in closed : \A x \in closed : x <= i

\* The on_rdata calls that carry one of the rows j..k of a stream.
CallsCarrying(stream, j, k) ==
    {c \in 1..Len(calls) :
        /\ calls[c].kind = "on_rdata"
        /\ calls[c].stream = stream
        /\ \E i \in j..k : arrived[stream][i] \in Range(calls[c].rows)}

\* Rows j..k arrived while the stream was out of streams_connecting and no
\* on_POSITION for it started between them.
LiveRun(a, j, k) ==
    \A i \in j..k : ~a[i].dfr /\ a[i].epoch = a[k].epoch

\* C2 (batch completion): n RDATA commands for a stream that is not in
\* streams_connecting, the first n-1 without a token and the last with token
\* t, give exactly one on_rdata call, with the n rows in arrival order and
\* token t; while the last command has not arrived no call carries the rows.
C2_BatchCompletion ==
    \A stream \in Streams :
        LET a == arrived[stream]
        IN \A k \in 1..Len(a) :
            LET j == BatchStart(a, k)
                hits == CallsCarrying(stream, j, k)
            IN /\ (a[k].ctok # None /\ LiveRun(a, j, k))
                  => /\ Cardinality(hits) = 1
                     /\ \A c \in hits : /\ calls[c].rows = SubSeq(a, j, k)
                                        /\ calls[c].token = a[k].ctok
               /\ (a[k].ctok = None /\ k = Len(a) /\ LiveRun(a, j, k)
                     /\ a[k].epoch = Started(stream))
                  => hits = {}

TasksOf(stream) ==
    {t \in TaskIds : tasks[t].pc # "idle" /\ tasks[t].stream = stream}

\* The on_rdata calls that carry a given row.
CallsWith(row) ==
    {c \in 1..Len(calls) : calls[c].kind = "on_rdata" /\ row \in Range(calls[c].rows)}

Increasing(rows) ==
    \A i, j \in 1..Len(rows) : i < j => rows[i].n < rows[j].n

\* C3 (deferred during catch-up): a row received while its stream is in
\* streams_connecting is not passed to on_rdata while an on_POSITION for the
\* stream that had started when the row arrived is still waiting or catching
\* up; and once the row has left pending_batches it has been forwarded, in
\* exactly one on_rdata call, made by the drain after a catch-up, with the
\* rows in arrival order.
C3_DeferredDuringCatchUp ==
    \A stream \in Streams :
        \A k \in 1..Len(arrived[stream]) :
            LET row == arrived[stream][k]
                hits == CallsWith(row)
            IN row.dfr =>
                /\ hits # {} =>
                      \A t \in TasksOf(stream) :
                          t <= row.epoch => tasks[t].pc \notin InSection \cup {"queued"}
                /\ row \notin Range(DictGet(pending_batches, stream)) =>
                      /\ Cardinality(hits) = 1
                      /\ \A c \in hits : /\ calls[c].src = "drain"
                                         /\ Increasing(calls[c].rows)

\* The consumer calls one on_POSITION call has made, in order.
TaskCalls(t) == SelectSeq(calls, LAMBDA c : c.task = t)

\* The on_rdata calls the pages of a catch-up call for: one per page with
\* rows, with the page's rows and the token the page reached.
RECURSIVE PageCalls(_, _, _)
PageCalls(t, stream, pages) ==
    IF pages = <<>> THEN <<>>
    ELSE LET p == Head(pages)
             rest == PageCalls(t, stream, Tail(pages))
         IN IF p.updates = <<>> THEN rest
            ELSE <<ConsumerCall("on_rdata", stream, p.new, p.updates, t, "page")>>
                     \o rest

PositionCall(t) ==
    ConsumerCall("on_position", tasks[t].stream, tasks[t].target, <<>>, t,
                 "position")

Fetches(t) == tasks[t].nfetch

\* The call has read the consumer's position and found it equal to its target.
CaughtUp(t) ==
    /\ tasks[t].pc \in InSection \cup {"done", "raised"}
    /\ tasks[t].start = tasks[t].target

\* C5 as claimed (scenario A): an on_POSITION(S, t) that finds the
\* consumer's last-known token equal to t makes no registry fetch.
C5_NoFetch == \A t \in TaskIds : CaughtUp(t) => Fetches(t) = 0

\* C5 amended: an on_POSITION(S, t) that finds the consumer's last-known
\* token equal to t makes exactly one fetch, get_updates_since(t, t), which
\* returns no rows; it forwards no page, and once the loop is over it has
\* called on_position(S, t) exactly once, before any deferred row.
C5_OneEmptyFetch ==
    \A t \in TaskIds :
        CaughtUp(t) =>
            LET tk == tasks[t]
                mine == TaskCalls(t)
            IN /\ Fetches(t) = 1
               /\ \A i \in 1..Len(tk.pages) :
                      /\ tk.pages[i].from = tk.target /\ tk.pages[i].to = tk.target
                      /\ tk.pages[i].updates = <<>>
               /\ \A i \in 1..Len(mine) : mine[i].src # "page"
               /\ tk.pc \in {"notifying", "done"}
                     => /\ mine # <<>> /\ mine[1] = PositionCall(t)
                        /\ \A i \in 2..Len(mine) : mine[i].kind # "on_position"

\* C5 witness: such a call has finished, after RDATA had been delivered live.
C5_Witness ==
    \E t \in TaskIds :
        /\ CaughtUp(t) /\ tasks[t].pc = "done"
        /\ tasks[t].target > 0
        /\ TaskCalls(t) = <<PositionCall(t)>>

\* C6 (unsubscribed-stream abort): an on_POSITION for a stream the consumer
\* has no position for makes no fetch and no consumer call, and when it has
\* returned, and no other on_POSITION for the stream is waiting, catching up
\* or has failed, the stream is not in streams_connecting.
C6_AbortReturnsToLive ==
    \A t \in TaskIds :
        tasks[t].pc = "aborted" =>
            /\ Fetches(t) = 0
            /\ TaskCalls(t) = <<>>
            /\ (\A u \in TasksOf(tasks[t].stream) : tasks[u].pc \in {"aborted", "done"})
                  => tasks[t].stream \notin streams_connecting

\* the step just taken was handed a command naming an unregistered stream
UnknownStreamStep ==
    ret'.op \in {"on_RDATA", "on_POSITION"} /\ ret'.case = "unknown_stream"

HandlerUnchanged ==
    UNCHANGED <<calls, streams_connecting, pending_batches, linearizer, tasks>>

\* C7 as claimed (unknown stream): a POSITION or an RDATA naming a stream
\* that is not registered returns without an error, forwards nothing and
\* leaves streams_connecting and pending_batches unchanged.
C7_UnknownDropped ==
    [][UnknownStreamStep => (ret'.res = "returned" /\ HandlerUnchanged)]_vars

\* C7 amended: a POSITION naming an unregistered stream returns without an
\* error and an RDATA naming one raises (the failed lookup is logged and
\* raised again); both forward nothing and leave streams_connecting and
\* pending_batches unchanged.
C7_UnknownPositionDroppedRdataRaises ==
    [][UnknownStreamStep =>
          /\ ret'.op = "on_POSITION" => ret'.res = "returned"
          /\ ret'.op = "on_RDATA" => ret'.res = "raised"
          /\ HandlerUnchanged]_vars

\* C7 witness: an RDATA for an unregistered stream has just raised while a
\* stream is catching up with rows buffered.
C7_Witness ==
    /\ ret = Ret("on_RDATA", "unknown_stream", "raised")
    /\ streams_connecting # {}
    /\ DOMAIN pending_batches # {}

\* C8 (parse failure): an RDATA whose row does not parse raises, forwards
\* nothing and leaves pending_batches and streams_connecting unchanged.
C8_ParseFailurePropagates ==
    [][(ret'.op = "on_RDATA" /\ ret'.case = "bad_row")
          => (ret'.res = "raised" /\ HandlerUnchanged /\ UNCHANGED arrived)]_vars

\* C8 witness: a row has just failed to parse while earlier rows of the
\* stream are still buffered.
C8_Witness ==
    /\ ret = Ret("on_RDATA", "bad_row", "raised")
    /\ "events" \in DOMAIN pending_batches
    /\ "events" \notin streams_connecting

\* C9 (idempotent disconnect): lost_connection(c) called straight after
\* lost_connection(c) does not raise and leaves the connections as they
\* were after the first call.
C9_IdempotentDisconnect ==
    [][(ret.op = "lost_connection" /\ ret'.op = "lost_connection"
           /\ ret'.case = ret.case)
          => (ret'.res = "returned" /\ connections' = connections)]_vars

Deliveries(recv, c, id) ==
    Cardinality({i \in 1..Len(recv[c]) : recv[c][i] = id})

\* C11 (broadcast): after any sequence of new_connection and lost_connection
\* calls, send_command passes the command exactly once to every connection
\* that is registered, and to no connection that has been lost or was never
\* registered.
C11_Broadcast ==
    [][nsent' # nsent =>
          \A c \in Conns :
              Deliveries(received', c, nsent') =
                  (IF c \in Range(connections) THEN 1 ELSE 0)]_vars

\* The on_POSITION calls for a stream that are inside the with-block.
InSectionOf(stream) ==
    {t \in TaskIds : tasks[t].stream = stream /\ tasks[t].pc \in InSection}

\* The on_POSITION calls for a stream that have not yet entered the with-block.
WaitingFor(stream) ==
    {t \in TaskIds : tasks[t].stream = stream /\ tasks[t].pc = "queued"}

\* C12 (per-stream mutual exclusion): for every stream at most one
\* on_POSITION call is inside the catch-up section, that call holds the
\* stream's linearizer slot, and while it is inside every other on_POSITION
\* call for the stream that has not entered yet is waiting in the
\* linearizer's queue.
C12_MutualExclusion ==
    \A stream \in Streams :
        /\ Cardinality(InSectionOf(stream)) <= 1
        /\ \A t \in InSectionOf(stream) :
               /\ linearizer[stream].holder = t
               /\ \A u \in WaitingFor(stream) :
                      u \in Range(linearizer[stream].queue)

\* C12 witness: one call is forwarding a page while a second call for the
\* same stream waits for the slot.
C12_Witness ==
    \E t, u \in TaskIds :
        /\ tasks[t].stream = tasks[u].stream
        /\ tasks[t].pc = "forwarding"
        /\ tasks[u].pc = "queued"
        /\ linearizer[tasks[t].stream].queue = <<u>>

\* A step of an on_POSITION call that is not for the given stream.
CatchUpStepOfOther(stream) ==
    \E t \in TaskIds : tasks'[t] # tasks[t] /\ tasks'[t].stream # stream

\* An RDATA command with a token for the stream has just been parsed.
TokenRdataStep(stream) ==
    /\ arrived'[stream] # arrived[stream]
    /\ Last(arrived'[stream]).ctok # None

\* C13 (cross-stream independence): whatever the other streams are doing, an
\* RDATA with a token for a stream B that is not in streams_connecting is
\* forwarded in the same step, as one on_rdata call closing B's batch; an
\* on_POSITION for B that waits while no call for B is in the catch-up
\* section has been granted B's slot, so that it can enter; and a step of an
\* on_POSITION for another stream leaves pending_batches[B], B's membership
\* in streams_connecting and B's linearizer slot unchanged.
C13_CrossStreamIndependence ==
    [][\A B \in Streams :
          /\ (TokenRdataStep(B) /\ B \notin streams_connecting)
                => calls' = Append(calls,
                       ConsumerCall("on_rdata", B, Last(arrived'[B]).ctok,
                           Append(DictGet(pending_batches, B), Last(arrived'[B])),
                           NoTask, "live"))
          /\ (WaitingFor(B)' # {} /\ InSectionOf(B)' = {})
                => linearizer'[B].holder \in WaitingFor(B)'
          /\ CatchUpStepOfOther(B)
                => /\ DictGet(pending_batches', B) = DictGet(pending_batches, B)
                   /\ (B \in streams_connecting') = (B \in streams_connecting)
                   /\ linearizer'[B] = linearizer[B]]_vars

\* C13 witness: while the catch-up of "events" is between two pages, an
\* on_POSITION for "typing" has run its whole catch-up and an RDATA for
\* "typing" has then been forwarded live.
C13_Witness ==
    \E t \in TaskIds :
        /\ tasks[t].stream = "events"
        /\ tasks[t].pc = "fetching"
        /\ \E i, j, k \in 1..Len(calls) :
               /\ i < j /\ j < k
               /\ calls[i].task = t /\ calls[i].src = "page"
               /\ calls[j].kind = "on_position" /\ calls[j].stream = "typing"
               /\ calls[k].src = "live" /\ calls[k].stream = "typing"

\* Some on_POSITION call for the stream has marked it as connecting and has
\* not yet left the with-block: it waits for the slot or is catching up.
InProgress(stream) ==
    \E t \in TaskIds :
        tasks[t].stream = stream /\ tasks[t].pc \in InSection \cup {"queued"}

\* C14 (streams-connecting membership): in every reachable state a stream is
\* in streams_connecting exactly when at least one on_POSITION call for it
\* has started and not yet finished its catch-up: it stays in the set while a
\* second call is still waiting or catching up, and it is not in the set
\* when no call for it is in progress.
C14_ConnectingIffInProgress ==
    \A stream \in Streams :
        (stream \in streams_connecting) <=> InProgress(stream)

\* An on_POSITION call has just left the with-block after on_position
\* returned and has popped rows buffered for its stream (lines 158-162).
DrainStep(t) ==
    /\ tasks[t].pc = "notifying"
    /\ tasks'[t].pc \in {"done", "raised"}
    /\ tasks[t].stream \in DOMAIN pending_batches
    /\ tasks[t].stream \notin DOMAIN pending_batches'

\* C15 (trailing batch token): when on_POSITION drains the rows buffered for
\* its stream it forwards them in one on_rdata call, in arrival order, whose
\* token is the token of the RDATA command that carried the last of them.
C15_TrailingBatchToken ==
    [][\A t \in TaskIds :
          DrainStep(t) =>
              LET rows == pending_batches[tasks[t].stream]
              IN calls' = Append(calls,
                     ConsumerCall("on_rdata", tasks[t].stream, Last(rows).ctok,
                                  rows, t, "drain"))]_vars

\* The fetches of a call chain: each asks for the updates up to the call's
\* target, the first from the position the call read, each later one from
\* the token the fetch before it returned.
PagesChained(tk) ==
    \A i \in 1..Len(tk.pages) :
        /\ tk.pages[i].to = tk.target
        /\ tk.pages[i].from = IF i = 1 THEN tk.start ELSE tk.pages[i - 1].new

\* C16 (catch-up paging): in one catch-up for on_POSITION(S, target) the
\* first get_updates_since call uses the consumer's last-known token for S
\* as from-token, every later call uses the token returned by the call
\* before it, and every call uses target as to-token; the consumer's
\* position is read in the step in which the call, holding the linearizer
\* slot for S, enters the with-block, and not before.
C16_CatchUpPaging ==
    [][\A t \in TaskIds :
          /\ tasks'[t].pc \in {"idle", "queued"} => tasks'[t].start = None
          /\ (tasks[t].pc = "queued" /\ tasks'[t].pc = "fetching")
                => /\ linearizer[tasks[t].stream].holder = t
                   /\ tasks'[t].start = position[tasks[t].stream]
          /\ PagesChained(tasks'[t])]_vars

\* C16 witness: a catch-up took two pages, the second starting where the
\* first ended, and a call queued behind it then started from the position
\* the first had brought the consumer to.
C16_Witness ==
    \E t, u \in TaskIds :
        /\ tasks[t].stream = tasks[u].stream
        /\ Len(tasks[t].pages) >= 2
        /\ tasks[t].pages[1].updates # <<>>
        /\ tasks[t].pages[2].from > tasks[t].pages[1].from
        /\ tasks[u].pages # <<>>
        /\ tasks[u].pages[1].from > tasks[t].start

\* The call has made its on_position callback.
Notified(t) ==
    \E c \in 1..Len(calls) : calls[c].task = t /\ calls[c].kind = "on_position"

\* Where the paging loop of a call stands, given the pages fetched so far.
LoopExitsOnNotLimited(t) ==
    LET tk == tasks[t]
        n == Len(tk.pages)
    IN /\ \A i \in 1..(n - 1) : tk.pages[i].limited
       /\ tk.pc = "fetching" => /\ Fetches(t) = n + 1
                                /\ n = 0 \/ tk.pages[n].limited
       /\ tk.pc = "forwarding" => Fetches(t) = n
       /\ tk.pc \in {"notifying", "done"} => Notified(t)
       /\ Notified(t) => /\ n >= 1 /\ ~tk.pages[n].limited
                         /\ Fetches(t) = n

\* C17 (catch-up termination): the paging loop goes on to another fetch
\* after every page reported limited, also one whose token has reached the
\* target, and it makes no fetch after a page reported not limited; the
\* on_position callback is made only after such a page; and a catch-up that
\* is fetching reaches the on_position callback, unless a call it awaits
\* fails, since the registry ends up returning a page that is not limited.
C17_CatchUpTermination ==
    /\ [](\A t \in TaskIds : LoopExitsOnNotLimited(t))
    /\ \A t \in TaskIds :
           (tasks[t].pc = "fetching") ~> (Notified(t) \/ tasks[t].pc = "raised")

\* C17 witness: a page reached the target and was reported limited, the
\* call fetched again, got a page that was not limited and made its
\* on_position callback.
C17_Witness ==
    \E t \in TaskIds :
        /\ Notified(t)
        /\ Len(tasks[t].pages) = 2
        /\ tasks[t].pages[1].limited
        /\ tasks[t].pages[1].new = tasks[t].target
        /\ tasks[t].pages[1].updates # <<>>

\* C18 (pending-batch invariant): in every reachable state a stream name
\* is a key of pending_batches only while an incomplete batch is being
\* assembled for it (the last row buffered had no token) or an on_POSITION
\* for it is in progress; it then maps to a non-empty row list, and no row
\* still in the map has been passed to on_rdata.
C18_PendingBatchInvariant ==
    \A stream \in DOMAIN pending_batches :
        LET rows == pending_batches[stream]
        IN /\ rows # <<>>
           /\ Last(rows).ctok = None \/ InProgress(stream)
           /\ \A i \in 1..Len(rows) : CallsWith(rows[i]) = {}

\* The RDATA rows of a stream passed to on_rdata so far, call after call.
RECURSIVE ForwardedRows(_, _)
ForwardedRows(cs, stream) ==
    IF cs = <<>> THEN <<>>
    ELSE LET c == Head(cs)
             rest == ForwardedRows(Tail(cs), stream)
         IN IF c.kind = "on_rdata" /\ c.stream = stream /\ c.src \in {"live", "drain"}
            THEN c.rows \o rest
            ELSE rest

\* C19 (row conservation): after any interleaving of on_RDATA and
\* on_POSITION calls, the rows of a stream that on_RDATA parsed are, in
\* arrival order, the rows passed to on_rdata so far followed by the rows
\* still in pending_batches: none is dropped and none is forwarded twice.
C19_RowConservation ==
    \A stream \in Streams :
        ForwardedRows(calls, stream) \o DictGet(pending_batches, stream)
            = arrived[stream]

\* C20 (forwarded batches are complete): every on_rdata call made to the
\* consumer, from live RDATA, from a catch-up page or from the drain after a
\* catch-up, carries a token and ends at a batch boundary: its last row came
\* from an RDATA command with a token or from a registry page.
C20_ForwardedBatchesComplete ==
    \A c \in 1..Len(calls) :
        calls[c].kind = "on_rdata" =>
            /\ calls[c].token # None
            /\ calls[c].rows # <<>>
            /\ Last(calls[c].rows).ctok # None

\* The slot of a stream is held only by an on_POSITION call for that stream
\* that has not left the with-block, and is held by one whenever a call for
\* the stream waits.
SlotHeldByLiveCall(stream) ==
    LET h == linearizer[stream].holder
    IN /\ h # NoTask => /\ tasks[h].stream = stream
                        /\ tasks[h].pc \in InSection \cup {"queued"}
       /\ \A t \in WaitingFor(stream) :
              /\ h # NoTask
              /\ t = h \/ t \in Range(linearizer[stream].queue)
       /\ \A i \in 1..Len(linearizer[stream].queue) :
              linearizer[stream].queue[i] \in WaitingFor(stream)

\* C21 (linearizer slot release): the slot of a stream is released on every
\* way out of the catch-up section of on_POSITION (the normal end, the
\* return for a stream the consumer has no position for, an error raised by
\* an awaited call), so it is never held by a call that has finished, and
\* every on_POSITION call that waits for the slot ends up acquiring it.
C21_SlotRelease ==
    /\ [](\A stream \in Streams : SlotHeldByLiveCall(stream))
    /\ \A t \in TaskIds : (tasks[t].pc = "queued") ~> (tasks[t].pc # "queued")

\* C21 witness: a call has just left the with-block by an error while a
\* second call for the stream was waiting, and the slot is now the second
\* call's.
C21_Witness ==
    \E t, u \in TaskIds :
        /\ ret = Ret("on_POSITION", "ok", "raised")
        /\ tasks[t].stream = tasks[u].stream
        /\ tasks[t].pc = "raised" /\ ~Notified(t)
        /\ tasks[u].pc = "queued"
        /\ linearizer[tasks[u].stream].holder = u

====
